---- MODULE Spec2Model ----
(***************************************************************************)
(* A model of the time-driven animation core of PyGameTest:                *)
(*   - animator.Animation, the frame-sequence animation (src/animator.py)  *)
(*   - shift.Anim / shift.Vari / shift.lerp / shift.interpolate, the       *)
(*     property animation and its container (src/shift.py)                 *)
(*                                                                         *)
(* Time is integral (pygame's clock.get_time() returns whole              *)
(* milliseconds).  frame_delay = unit_per_s / fps is a true division in    *)
(* the source; the configurations of AnimConfigs are those in which fps    *)
(* divides unit_per_s, so that it is a whole number.  Interpolated values  *)
(* are exact rationals <<n, d>> in lowest terms; Anim.repeat is counted in *)
(* half-repeats (the source's value times two), so that the source's       *)
(* "repeat -= 0.5" is a subtraction of one.                                *)
(***************************************************************************)
EXTENDS Integers, Sequences, FiniteSets, TLC

VARIABLES
    animation,  \* the animator.Animation object
    last,       \* what the last call on `animation` did (observation)
    run,        \* the Animation's state before, and the deltas of, the
                \* update calls made since the last play/pause/reset
    vari,       \* the shift.Vari object: [vars, anims]
    anim,       \* the shift.Anim object
    out,        \* what the last call on `anim` / `vari` did (observation)
    hist,       \* history of `anim`: constructor arguments, deltas seen
    seen,       \* the last call on `animation`, with the animation before it
    objs,       \* the shift.Anim objects a Vari is given, by identity
    tick,       \* what the last call on the Vari did (observation)
    entity,     \* the animator.Animated object: [animations, current]
    clips,      \* the animator.Animation objects of `entity`, by identity
    told,       \* what the last call on `entity` did, and its history
    closure,    \* the closure shift.lerp returned, as the values it captured
    got,        \* what the last call of lerp, `closure` or interpolate did
    app,        \* the app.App object: [focused]
    elems,      \* the app.Element objects of `app`, by identity
    heard       \* what the last call on `app` or an element did, and its history

vars == <<animation, last, run, vari, anim, out, hist,
          seen, objs, tick, entity, clips, told, closure, got,
          app, elems, heard>>
animVars == <<animation, last, run>>
shiftVars == <<vari, anim, out, hist>>
\* the variables of the specifications that follow SpecAnim and SpecProp
otherVars == <<seen, objs, tick, entity, clips, told, closure, got,
          app, elems, heard>>
variVars == <<objs, tick>>
entityVars == <<entity, clips, told>>
lerpVars == <<closure, got>>
appVars == <<app, elems, heard>>

----------------------------------------------------------------------------
(* Bounds of the model *)

\* longest frame sequence of the small configurations
MaxFrames == 3
\* largest ordinary delta of the small configurations
MaxDt == 3
\* update is not explored once elapsed would pass MaxSpans * t_full
MaxSpans == 3
\* longest run of consecutive update calls that is remembered
MaxRun == 3
\* longest play duration of the small property animations
MaxPlay == 2
\* longest start and end delay
MaxDelay == 1
\* largest repeat argument, in half-repeats
MaxRepeat == 3
\* largest offset, either way, an animation is indexed with
MaxOffset == 2
\* number of property animations made for one Vari
MaxAnims == 2
\* completion callbacks are counted up to this many
MaxFired == 2
\* longest vector that is interpolated
MaxLen == 2
\* longest text an input buffer holds
MaxBuffer == 2

----------------------------------------------------------------------------
(* animator.Animation *)

RESET == "reset"
PAUSE == "pause"
LOOP == "loop"
Styles == {RESET, PAUSE, LOOP}

\* the value None of the source
None == "None"
\* a completion callback that only observes its argument
Observer == "observer"

\* default of the constructor's unit_per_s: milliseconds
UnitPerS == 1000

FrameHandles == <<"f0", "f1", "f2", "f3", "f4">>

\* frames[i] of the source, for a 0-based index i
Item(frames, i) == frames[i + 1]

Animation__init__(frames, fps, style, cb_complete, unit_per_s) ==
    LET frame_delay == unit_per_s \div fps IN
    [ frames      |-> frames,
      fps         |-> fps,
      style       |-> style,
      cb_complete |-> cb_complete,
      unit_per_s  |-> unit_per_s,
      t           |-> 0,
      frame_delay |-> frame_delay,
      t_full      |-> frame_delay * Len(frames),
      frame       |-> Item(frames, 0),
      start       |-> Item(frames, 0),
      end         |-> Item(frames, Len(frames) - 1),
      playing     |-> FALSE ]

play_Rewinds(self) == [self EXCEPT !.playing = TRUE, !.t = 0]

play(self) == [self EXCEPT !.playing = TRUE]

pause(self) == [self EXCEPT !.playing = FALSE]

reset_KeepsFrame(self) == [self EXCEPT !.t = 0, !.playing = FALSE]

reset(self) == [self EXCEPT !.t = 0, !.frame = self.start, !.playing = FALSE]

\* The arguments cb_complete is called with by one on_complete(): the
\* animation as it is at the moment of the call, or nothing without a callback.
on_complete(self) ==
    IF self.cb_complete # None THEN <<self>> ELSE <<>>

\* The outcome of a call that does not reach the frame lookup.
NoLookup(self) ==
    [ self |-> self, raised |-> FALSE, index |-> -1, calls |-> <<>> ]

\* self.frame = self.frames[int(self.t // self.frame_delay)]: an IndexError
\* when the index is not one of the list (self.t is already advanced).
Lookup(self) ==
    LET index == self.t \div self.frame_delay IN
    IF index \in 0..(Len(self.frames) - 1)
    THEN [ self   |-> [self EXCEPT !.frame = Item(self.frames, index)],
           raised |-> FALSE, index |-> index, calls |-> <<>> ]
    ELSE [ self |-> self, raised |-> TRUE, index |-> index, calls |-> <<>> ]

Complete_NoPause(self, snap) ==
    LET done == [self EXCEPT !.frame = snap] IN
    [ self |-> done, raised |-> FALSE, index |-> -1, calls |-> on_complete(done) ]

\* the branch of update taken when elapsed has passed t_full: snap, pause,
\* on_complete
Complete(self, snap) ==
    LET done == pause([self EXCEPT !.frame = snap]) IN
    [ self |-> done, raised |-> FALSE, index |-> -1, calls |-> on_complete(done) ]

\* "if self.t > self.t_full" of the RESET and PAUSE branches
PastEnd(self) == self.t > self.t_full

Wrapped_NoModulo(self, dt) == self.t + dt

Wrapped_BeforeAdd(self, dt) == (self.t % self.t_full) + dt

\* "self.t += dt; self.t %= self.t_full" of the LOOP branch

Wrapped(self, dt) == (self.t + dt) % self.t_full

\* the body of update once self.playing is known to hold
Advance(self, dt) ==
    IF self.style = RESET THEN
        LET s == [self EXCEPT !.t = self.t + dt] IN
        IF PastEnd(s) THEN Complete(s, s.start) ELSE Lookup(s)
    ELSE IF self.style = PAUSE THEN
        LET s == [self EXCEPT !.t = self.t + dt] IN
        IF PastEnd(s) THEN Complete(s, s.end) ELSE Lookup(s)
    ELSE IF self.style = LOOP THEN
        Lookup([self EXCEPT !.t = Wrapped(self, dt)])
    ELSE NoLookup(self)

Animation_update_Unguarded(self, dt) == Advance(self, dt)

Animation_update(self, dt) ==
    IF ~self.playing THEN NoLookup(self) ELSE Advance(self, dt)

----------------------------------------------------------------------------
(* The Animation under an arbitrary caller *)

\* (unit_per_s, fps, frame count): the spec's scenario of 4 frames at 8 fps
\* in milliseconds, and small ones
AnimConfigs ==
    { [unit_per_s |-> UnitPerS, fps |-> 8, n |-> 4] }
    \cup { [unit_per_s |-> 2, fps |-> f, n |-> n] : f \in {1, 2}, n \in 1..MaxFrames }

\* the deltas update is called with: zero, small, and larger than t_full
Deltas(self) ==
    IF self.unit_per_s = UnitPerS
    THEN {0, 50, 100, 500, 1100}
    ELSE 0..MaxDt \cup {2 * self.t_full + 1}

Called(op, dt, r) ==
    [ op |-> op, dt |-> dt, raised |-> r.raised, index |-> r.index, calls |-> r.calls ]

Fresh(self) ==
    [ t |-> self.t, frame |-> self.frame, playing |-> self.playing, dts |-> <<>> ]

\* the placeholders of the objects a specification does not use
Idle == [ op |-> "none" ]

InitAnim ==
    /\ \E c \in AnimConfigs, style \in Styles, cb \in {None, Observer} :
          animation = Animation__init__(SubSeq(FrameHandles, 1, c.n), c.fps,
                                        style, cb, c.unit_per_s)
    /\ last = Called("init", 0, NoLookup(animation))
    /\ run = Fresh(animation)
    /\ vari = Idle /\ anim = Idle /\ out = Idle /\ hist = Idle
    /\ seen = Idle /\ objs = Idle /\ tick = Idle
    /\ entity = Idle /\ clips = Idle /\ told = Idle
    /\ closure = Idle /\ got = Idle
    /\ app = Idle /\ elems = Idle /\ heard = Idle

Play ==
    /\ animation' = play(animation)
    /\ last' = Called("play", 0, NoLookup(animation'))
    /\ run' = Fresh(animation')
    /\ UNCHANGED shiftVars
    /\ UNCHANGED otherVars

Pause ==
    /\ animation' = pause(animation)
    /\ last' = Called("pause", 0, NoLookup(animation'))
    /\ run' = Fresh(animation')
    /\ UNCHANGED shiftVars
    /\ UNCHANGED otherVars

Reset ==
    /\ animation' = reset(animation)
    /\ last' = Called("reset", 0, NoLookup(animation'))
    /\ run' = Fresh(animation')
    /\ UNCHANGED shiftVars
    /\ UNCHANGED otherVars

Update ==
    \E dt \in Deltas(animation) :
        /\ animation.t + dt <= MaxSpans * animation.t_full
        /\ Len(run.dts) < MaxRun
        /\ LET r == Animation_update(animation, dt) IN
              /\ animation' = r.self
              /\ last' = Called("update", dt, r)
        /\ run' = [run EXCEPT !.dts = Append(@, dt)]
        /\ UNCHANGED shiftVars
        /\ UNCHANGED otherVars

NextAnim == Play \/ Pause \/ Reset \/ Update

SpecAnim == InitAnim /\ [][NextAnim]_vars

----------------------------------------------------------------------------
(* The Animation under a caller that also indexes it; every call is seen    *)
(* together with the animation as it was before the call                    *)

\* a list indexed as Python indexes it: -1 is the last item
PyItem(frames, index) ==
    IF index >= 0 THEN Item(frames, index)
    ELSE Item(frames, Len(frames) + index)

Offset_NoModulo(self, k) == (self.t \div self.frame_delay) + k

\* "index = self.t // self.frame_delay; index += k; index %= len(self.frames)"
Offset(self, k) == ((self.t \div self.frame_delay) + k) % Len(self.frames)

\* anim[k]: the frame returned, the index it was read at (-1 when none was
\* computed) and whether the read raised an IndexError
Animation__getitem__(self, k) ==
    IF k = 0
    THEN [ raised |-> FALSE, index |-> -1, frame |-> self.frame ]
    ELSE LET index == Offset(self, k) IN
         IF index \in (-Len(self.frames))..(Len(self.frames) - 1)
         THEN [ raised |-> FALSE, index |-> index,
                frame |-> PyItem(self.frames, index) ]
         ELSE [ raised |-> TRUE, index |-> index, frame |-> None ]

Offsets == (-MaxOffset)..MaxOffset

\* the callbacks invoked since the last reset() and since the last play():
\* both counts start again at a reset(), the second also at a play()
Fired(before, op, r) ==
    IF op = "reset" THEN [ reset |-> 0, play |-> 0 ]
    ELSE IF op = "play" THEN [ reset |-> before.reset, play |-> 0 ]
    ELSE [ reset |-> IF before.reset + Len(r.calls) < MaxFired
                     THEN before.reset + Len(r.calls) ELSE MaxFired,
           play  |-> IF before.play + Len(r.calls) < MaxFired
                     THEN before.play + Len(r.calls) ELSE MaxFired ]

Saw(op, arg, was, r, frame, fired) ==
    [ op |-> op, arg |-> arg, was |-> was, raised |-> r.raised,
      index |-> r.index, calls |-> r.calls, frame |-> frame, fired |-> fired ]

InitFrame ==
    /\ \E c \in AnimConfigs, style \in Styles, cb \in {None, Observer} :
          animation = Animation__init__(SubSeq(FrameHandles, 1, c.n), c.fps,
                                        style, cb, c.unit_per_s)
    /\ seen = Saw("init", 0, animation, NoLookup(animation), None,
                  [ reset |-> 0, play |-> 0 ])
    /\ last = Idle /\ run = Idle
    /\ vari = Idle /\ anim = Idle /\ out = Idle /\ hist = Idle
    /\ objs = Idle /\ tick = Idle
    /\ entity = Idle /\ clips = Idle /\ told = Idle
    /\ closure = Idle /\ got = Idle
    /\ app = Idle /\ elems = Idle /\ heard = Idle

CallPlay ==
    /\ animation' = play(animation)
    /\ seen' = Saw("play", 0, animation, NoLookup(animation'), None,
                   Fired(seen.fired, "play", NoLookup(animation')))
    /\ UNCHANGED <<last, run, shiftVars, variVars, entityVars, lerpVars, appVars>>

CallPause ==
    /\ animation' = pause(animation)
    /\ seen' = Saw("pause", 0, animation, NoLookup(animation'), None,
                   Fired(seen.fired, "pause", NoLookup(animation')))
    /\ UNCHANGED <<last, run, shiftVars, variVars, entityVars, lerpVars, appVars>>

CallReset ==
    /\ animation' = reset(animation)
    /\ seen' = Saw("reset", 0, animation, NoLookup(animation'), None,
                   Fired(seen.fired, "reset", NoLookup(animation')))
    /\ UNCHANGED <<last, run, shiftVars, variVars, entityVars, lerpVars, appVars>>

CallUpdate ==
    \E dt \in Deltas(animation) :
        /\ animation.t + dt <= MaxSpans * animation.t_full
        /\ LET r == Animation_update(animation, dt) IN
              /\ animation' = r.self
              /\ seen' = Saw("update", dt, animation, r, None,
                             Fired(seen.fired, "update", r))
        /\ UNCHANGED <<last, run, shiftVars, variVars, entityVars, lerpVars, appVars>>

CallGetItem ==
    \E k \in Offsets :
        LET r == Animation__getitem__(animation, k) IN
            /\ seen' = [ op |-> "getitem", arg |-> k, was |-> animation,
                         raised |-> r.raised, index |-> r.index,
                         calls |-> <<>>, frame |-> r.frame,
                         fired |-> seen.fired ]
            /\ UNCHANGED <<animation, last, run, shiftVars, variVars, entityVars, lerpVars, appVars>>

NextFrame == CallPlay \/ CallPause \/ CallReset \/ CallUpdate \/ CallGetItem

SpecFrame == InitFrame /\ [][NextFrame]_vars

----------------------------------------------------------------------------
(* The constructor of Animation under any arguments                          *)

Raises_FramesFirst(frames, fps) ==
    IF Len(frames) = 0 THEN "IndexError"
    ELSE IF fps = 0 THEN "ZeroDivisionError"
    ELSE None

\* the exception Animation.__init__ ends with, None when it returns:
\* "self.frame_delay = unit_per_s / fps" comes before "self.frame = frames[0]"
Raises(frames, fps) ==
    IF fps = 0 THEN "ZeroDivisionError"
    ELSE IF Len(frames) = 0 THEN "IndexError"
    ELSE None

\* Animation(frames, fps, style, cb_complete, unit_per_s): the exception
\* raised and the object made (none when it raised)
Construct(frames, fps, style, cb_complete, unit_per_s) ==
    LET raised == Raises(frames, fps) IN
    [ raised |-> raised,
      self   |-> IF raised = None
                 THEN Animation__init__(frames, fps, style, cb_complete, unit_per_s)
                 ELSE Idle ]

\* frames per second given to the constructor, and units per second that
\* every one of them divides
Rates == {-2, -1, 0, 1, 2}
Units == {2, 4}

InitMake ==
    /\ animation = Idle /\ seen = Idle
    /\ last = Idle /\ run = Idle
    /\ vari = Idle /\ anim = Idle /\ out = Idle /\ hist = Idle
    /\ objs = Idle /\ tick = Idle
    /\ entity = Idle /\ clips = Idle /\ told = Idle
    /\ closure = Idle /\ got = Idle
    /\ app = Idle /\ elems = Idle /\ heard = Idle

\* one more Animation is constructed
Make ==
    \E n \in 0..MaxFrames, fps \in Rates, style \in Styles,
       cb \in {None, Observer}, unit_per_s \in Units :
        LET r == Construct(SubSeq(FrameHandles, 1, n), fps, style, cb, unit_per_s) IN
            /\ animation' = r.self
            /\ seen' = [ op |-> "init", frames |-> n, fps |-> fps,
                         unit_per_s |-> unit_per_s, raised |-> r.raised ]
            /\ UNCHANGED <<last, run, shiftVars, variVars, entityVars, lerpVars, appVars>>

NextMake == Make

SpecMake == InitMake /\ [][NextMake]_vars

----------------------------------------------------------------------------
(* Exact rationals <<n, d>>, d > 0, in lowest terms: the values of           *)
(* shift.interpolate                                                         *)

Abs(x) == IF x < 0 THEN -x ELSE x

RECURSIVE GCD(_, _)
GCD(a, b) == IF b = 0 THEN a ELSE GCD(b, a % b)

\* the fraction n / d in lowest terms; n and d are evaluated once, as nd
Rat(n, d) ==
    CHOOSE x \in { (LET g == GCD(Abs(nd[1]), nd[2]) IN
                    IF nd[1] = 0 THEN <<0, 1>> ELSE <<nd[1] \div g, nd[2] \div g>>) :
                   nd \in { <<n, d>> } } : TRUE

Whole(n) == <<n, 1>>

RatLeq(x, y) == x[1] * y[2] <= y[1] * x[2]

Max(a, b) == IF a >= b THEN a ELSE b
Min(a, b) == IF a <= b THEN a ELSE b

----------------------------------------------------------------------------
(* shift.Smooth, shift.interpolate, shift.lerp *)

\* Smooth.linear
linear == "linear"
\* Smooth.polynomial() with its default coefficients (0, 0, 1): t ** 2
polynomial == "polynomial"
Smoothings == {linear, polynomial}

\* f(t) for a rational t
Smooth(f, t) ==
    IF f = linear THEN t ELSE Rat(t[1] * t[1], t[2] * t[2])

\* p + f(t) * (q - p), for numbers p and q
interpolate(p, q, t, f) ==
    LET ft == Smooth(f, t) IN
    Rat(p[1] * q[2] * ft[2] + ft[1] * (q[1] * p[2] - p[1] * q[2]),
        p[2] * q[2] * ft[2])

\* the closure lerp returns, as the values it captures
lerp(p, q, t_min, t_max, f) ==
    [ p |-> p, q |-> q, t_min |-> t_min, t_max |-> t_max, f |-> f ]

Apply_Unclamped(fn, t) ==
    interpolate(fn.p, fn.q, Rat(t - fn.t_min, fn.t_max - fn.t_min), fn.f)

\* a call of that closure:
\* interpolate(p, q, (max(t_min, min(t_max, t)) - t_min) / (t_max - t_min), f)
Apply(fn, t) ==
    interpolate(fn.p, fn.q,
                Rat(Max(fn.t_min, Min(fn.t_max, t)) - fn.t_min, fn.t_max - fn.t_min),
                fn.f)

----------------------------------------------------------------------------
(* shift.interpolate and shift.lerp over numbers and vectors                 *)

\* an operand of interpolate: a single number, on which iter() raises
\* TypeError, or a tuple of numbers
Number(x) == [ iter |-> FALSE, at |-> <<x>> ]
Tuple(xs) == [ iter |-> TRUE, at |-> xs ]

Returns(value) == [ raised |-> None, value |-> value ]
Throws(error) == [ raised |-> error, value |-> None ]

Interpolate_OverQ(p, q, t, f) ==
    IF ~p.iter \/ ~q.iter
    THEN IF p.iter \/ q.iter
         THEN Throws("TypeError")
         ELSE Returns(Number(interpolate(p.at[1], q.at[1], t, f)))
    ELSE IF Len(q.at) > Len(p.at)
         THEN Throws("IndexError")
         ELSE Returns(Tuple([ i \in 1..Len(q.at) |->
                                interpolate(p.at[i], q.at[i], t, f) ]))

\* interpolate(p, q, t, f): the value returned or the exception raised.
\* When either operand is a number the except branch computes
\* p + f(t) * (q - p), where q - p raises TypeError if the other is a tuple;
\* else the comprehension reads p[i] and q[i] for i in range(len(p)), where
\* q[i] raises IndexError if q is the shorter
Interpolate(p, q, t, f) ==
    IF ~p.iter \/ ~q.iter
    THEN IF p.iter \/ q.iter
         THEN Throws("TypeError")
         ELSE Returns(Number(interpolate(p.at[1], q.at[1], t, f)))
    ELSE IF Len(p.at) > Len(q.at)
         THEN Throws("IndexError")
         ELSE Returns(Tuple([ i \in 1..Len(p.at) |->
                                interpolate(p.at[i], q.at[i], t, f) ]))

Clamped_Not(self, t) == Rat(t - self.t_min, self.t_max - self.t_min)

\* (max(t_min, min(t_max, t)) - t_min) / (t_max - t_min), for t_max > t_min
Clamped(self, t) ==
    Rat(Max(self.t_min, Min(self.t_max, t)) - self.t_min, self.t_max - self.t_min)

Call_ZeroOverZero(self, t) ==
    Interpolate(self.p, self.q,
                IF self.t_max = self.t_min THEN Whole(0) ELSE Clamped(self, t),
                self.f)

\* a call of the closure lerp returned: the argument of interpolate is
\* evaluated first, and its division raises when t_max = t_min
Call(self, t) ==
    IF self.t_max = self.t_min
    THEN Throws("ZeroDivisionError")
    ELSE Interpolate(self.p, self.q, Clamped(self, t), self.f)

\* the numbers interpolated between, and the operands made of them
Coordinates == { Whole(-1), Whole(2) }
Operands ==
    { Number(x) : x \in Coordinates }
        \cup { Tuple(xs) : xs \in UNION { [1..n -> Coordinates] : n \in 0..MaxLen } }

\* the positions interpolate is called at directly
Positions == { Whole(0), Rat(1, 2), Whole(1) }

Did(op, t, r) == [ op |-> op, t |-> t, raised |-> r.raised, value |-> r.value ]

\* closure = lerp(p, q, t_min, t_max, f) has returned; Anim.__init__ makes its
\* f_anim so, with t_min = delay_start and t_max = delay_start + t_play
InitLerp ==
    /\ \E p \in Operands, q \in Operands, t_min \in 0..MaxDelay,
          t_play \in 0..MaxPlay, f \in Smoothings :
            closure = lerp(p, q, t_min, t_min + t_play, f)
    /\ got = Did("lerp", None, Returns(None))
    /\ animation = Idle /\ last = Idle /\ run = Idle /\ seen = Idle
    /\ vari = Idle /\ anim = Idle /\ out = Idle /\ hist = Idle
    /\ objs = Idle /\ tick = Idle
    /\ entity = Idle /\ clips = Idle /\ told = Idle
    /\ app = Idle /\ elems = Idle /\ heard = Idle

\* closure(t)
CallFn ==
    \E t \in (closure.t_min - 1)..(closure.t_max + 1) :
        /\ got' = Did("call", t, Call(closure, t))
        /\ UNCHANGED <<closure, animVars, shiftVars, seen, variVars, entityVars, appVars>>

\* interpolate(p, q, t, f) on the operands of closure
CallInterpolate ==
    \E t \in Positions :
        /\ got' = Did("interpolate", t, Interpolate(closure.p, closure.q, t, closure.f))
        /\ UNCHANGED <<closure, animVars, shiftVars, seen, variVars, entityVars, appVars>>

NextLerp == CallFn \/ CallInterpolate

SpecLerp == InitLerp /\ [][NextLerp]_vars

----------------------------------------------------------------------------
(* shift.Vari and shift.Anim *)

STRAIGHT == "straight"
REVERSE == "reverse"
Loops == {STRAIGHT, REVERSE}

\* Vari.__init__ followed by make_vari(var_names, var_values)
Vari__init__(values) == [ vars |-> values, anims |-> {} ]

\* Vari.__setitem__
Vari__setitem__(self, key, value) == [self EXCEPT !.vars[key] = value]

\* Anim.__init__; repeat is in half-repeats
Anim__init__(v_ari, v, q, t_play, f, loop, repeat, delay_start, delay_end) ==
    [ v            |-> v,
      q            |-> q,
      t_play       |-> t_play,
      f            |-> f,
      loop         |-> loop,
      repeat       |-> repeat,
      delay_start  |-> delay_start,
      delay_end    |-> delay_end,
      t            |-> 0,
      t_end        |-> delay_start + t_play + delay_end,
      f_anim       |-> lerp(v_ari.vars[v], q, delay_start, delay_start + t_play, f),
      play_forward |-> TRUE,
      playing      |-> TRUE ]

\* The outcome of Anim.update: the animation, the Vari's dict, the returned
\* boolean, the boundaries met (the direction each was met in), whether the
\* call ended the animation, and the completion callbacks it invoked (the
\* class has none).
Outcome(self, values, ret, legs, finished) ==
    [ self |-> self, vars |-> values, ret |-> ret, legs |-> legs,
      finished |-> finished, calls |-> <<>> ]

Break_NoWrite(self, values, at, legs) ==
    Outcome([self EXCEPT !.playing = FALSE], values, FALSE, legs, TRUE)

Break_StillPlaying(self, values, at, legs) ==
    Outcome(self, [values EXCEPT ![self.v] = Apply(self.f_anim, at)], FALSE, legs, TRUE)

Break_ReturnsTrue(self, values, at, legs) ==
    Outcome([self EXCEPT !.playing = FALSE],
            [values EXCEPT ![self.v] = Apply(self.f_anim, at)], TRUE, legs, TRUE)

\* "Break at the end/start of the animation":
\* self.vari[self.v] = self.f_anim(at); self.playing = False; return False
Break(self, values, at, legs) ==
    Outcome([self EXCEPT !.playing = FALSE],
            [values EXCEPT ![self.v] = Apply(self.f_anim, at)], FALSE, legs, TRUE)

Write_Resampled(self, values, legs) ==
    Outcome(self, [values EXCEPT ![self.v] =
                      Apply([self.f_anim EXCEPT !.p = values[self.v]], self.t)],
            TRUE, legs, FALSE)

\* the last two lines of update:
\* self.vari[self.v] = self.f_anim(self.t); return True
Write(self, values, legs) ==
    Outcome(self, [values EXCEPT ![self.v] = Apply(self.f_anim, self.t)], TRUE,
            legs, FALSE)

HalfSpent_Whole(self) == [self EXCEPT !.repeat = @ - 2]

\* "self.repeat -= 0.5" of the REVERSE branch
HalfSpent(self) == [self EXCEPT !.repeat = @ - 1]

Turned_SameWay(self) ==
    IF self.play_forward
    THEN [self EXCEPT !.t = self.t_end - (self.t - self.t_end)]
    ELSE [self EXCEPT !.t = -self.t]

\* the reflection about the boundary crossed, and
\* "self.play_forward = not self.play_forward"
Turned(self) ==
    IF self.play_forward
    THEN [self EXCEPT !.t = self.t_end - (self.t - self.t_end), !.play_forward = FALSE]
    ELSE [self EXCEPT !.t = -self.t, !.play_forward = TRUE]

UpdateStraight_NoWrap(self, values, dt) ==
    LET s == [self EXCEPT !.t = self.t + dt] IN
    IF s.t > s.t_end THEN
        LET r == [s EXCEPT !.repeat = @ - 2] IN
        IF r.repeat < 0
        THEN Break(r, values, r.t_end, <<TRUE>>)
        ELSE Write(r, values, <<TRUE>>)
    ELSE Write(s, values, <<>>)

UpdateStraight(self, values, dt) ==
    LET s == [self EXCEPT !.t = self.t + dt] IN
    IF s.t > s.t_end THEN
        LET r == [s EXCEPT !.repeat = @ - 2] IN
        IF r.repeat < 0
        THEN Break(r, values, r.t_end, <<TRUE>>)
        ELSE Write([r EXCEPT !.t = r.t % r.t_end], values, <<TRUE>>)
    ELSE Write(s, values, <<>>)

UpdateReverse_NoSpend(self, values, dt) ==
    LET s == [self EXCEPT !.t = IF self.play_forward THEN self.t + dt ELSE self.t - dt] IN
    IF s.t > s.t_end \/ s.t < 0
    THEN Write(Turned(s), values, <<s.play_forward>>)
    ELSE Write(s, values, <<>>)

UpdateReverse(self, values, dt) ==
    LET s == [self EXCEPT !.t = IF self.play_forward THEN self.t + dt ELSE self.t - dt] IN
    IF s.t > s.t_end \/ s.t < 0 THEN
        LET r == HalfSpent(s) IN
        IF r.repeat < 0 /\ r.play_forward THEN Break(r, values, r.t_end, <<TRUE>>)
        ELSE IF r.repeat < 0 /\ ~r.play_forward THEN Break(r, values, 0, <<FALSE>>)
        ELSE Write(Turned(r), values, <<r.play_forward>>)
    ELSE Write(s, values, <<>>)

\* Anim.update(dt), on the dict of the Vari the animation was built for
Anim_update(self, values, dt) ==
    IF ~self.playing THEN Outcome(self, values, FALSE, <<>>, FALSE)
    ELSE IF self.loop = STRAIGHT THEN UpdateStraight(self, values, dt)
    ELSE IF self.loop = REVERSE THEN UpdateReverse(self, values, dt)
    ELSE Write(self, values, <<>>)

----------------------------------------------------------------------------
(* The Anim under an arbitrary caller *)

\* Circle.R and Circle.WIDTH, two numeric features of a Vari
R == "r"
WIDTH == "width"
Keys == {R, WIDTH}

\* the spec's scenario: 0 to 10 in 1000 ms, Straight, no delays, no repeat
Scenario ==
    [ p |-> 0, q |-> 10, t_play |-> 1000, f |-> linear, loop |-> STRAIGHT,
      repeat |-> 0, delay_start |-> 0, delay_end |-> 0 ]

PropConfigs ==
    { Scenario }
    \cup [ p : {0}, q : {4}, t_play : {1, MaxPlay}, f : Smoothings, loop : Loops,
           repeat : 0..MaxRepeat, delay_start : {0, MaxDelay}, delay_end : {0, MaxDelay} ]
    \cup [ p : {3}, q : {-1}, t_play : {MaxPlay}, f : {linear}, loop : Loops,
           repeat : 0..MaxRepeat, delay_start : {0, MaxDelay}, delay_end : {0} ]

\* the deltas update is called with: zero, small, and more than two spans
PropDeltas(self) ==
    IF self.t_play = Scenario.t_play
    THEN {0, 500, 600}
    ELSE 0..MaxDt \cup {2 * self.t_end + 1}

\* what code outside the animation stores in the Vari
Stored == { Whole(1) }

Returned(op, dt, was, r) ==
    [ op |-> op, dt |-> dt, was |-> was, ret |-> r.ret, finished |-> r.finished,
      calls |-> r.calls ]

InitProp ==
    /\ \E c \in PropConfigs :
          /\ vari = Vari__init__([k \in Keys |-> Whole(c.p)])
          /\ anim = Anim__init__(vari, R, Whole(c.q), c.t_play, c.f, c.loop,
                                 c.repeat, c.delay_start, c.delay_end)
          /\ hist = [ repeat |-> c.repeat, small |-> TRUE, legs |-> <<>>,
                      finishes |-> 0, p |-> vari.vars[R], q |-> Whole(c.q),
                      total |-> 0, below |-> TRUE ]
    /\ out = Returned("init", 0, anim, Outcome(anim, vari.vars, TRUE, <<>>, FALSE))
    /\ animation = Idle /\ last = Idle /\ run = Idle
    /\ seen = Idle /\ objs = Idle /\ tick = Idle
    /\ entity = Idle /\ clips = Idle /\ told = Idle
    /\ closure = Idle /\ got = Idle
    /\ app = Idle /\ elems = Idle /\ heard = Idle

\* the sum of the deltas a STRAIGHT animation was updated with since it was
\* made, counted no further than one past (repeat + 1) spans
Elapsed(self, h, dt) ==
    IF self.loop = STRAIGHT
    THEN Min(h.total + dt, ((h.repeat \div 2) + 1) * self.t_end + 1)
    ELSE 0

\* a direct call anim.update(dt)
AnimUpdate ==
    \E dt \in PropDeltas(anim) :
        LET r == Anim_update(anim, vari.vars, dt) IN
        /\ anim' = r.self
        /\ vari' = [vari EXCEPT !.vars = r.vars]
        /\ out' = Returned("update", dt, anim, r)
        /\ hist' = [hist EXCEPT
              !.small = @ /\ 0 < dt /\ dt < anim.t_end,
              !.legs = @ \o r.legs,
              !.finishes = @ + (IF r.finished THEN 1 ELSE 0),
              !.total = Elapsed(anim, hist, dt),
              !.below = @ /\ dt < anim.t_end]
        /\ UNCHANGED animVars
        /\ UNCHANGED otherVars

\* vari[key] = value, by code outside the animation
SetItem ==
    \E key \in Keys, value \in Stored :
        /\ vari' = Vari__setitem__(vari, key, value)
        /\ out' = [out EXCEPT !.op = "setitem"]
        /\ UNCHANGED <<anim, hist>>
        /\ UNCHANGED animVars
        /\ UNCHANGED otherVars

NextProp == AnimUpdate \/ SetItem

SpecProp == InitProp /\ [][NextProp]_vars

----------------------------------------------------------------------------
(* shift.Vari as the driver of a set of Anim objects. vari.anims holds the   *)
(* identities of the animations in the set, objs the objects themselves      *)
(* (all made against this Vari), so an animation that has left the set, or   *)
(* never entered it, still exists and can be added.                          *)

AnimIds == 1..MaxAnims

\* Vari.add_anim: "self.anims.add(anim)", whatever state anim is in
Vari_add_anim(self, id) == [self EXCEPT !.anims = @ \cup {id}]

Iterated_Every(self, os) == DOMAIN os

\* "for anim in self.anims"
Iterated(self, os) == self.anims

\* the orders a Python set of these members may be iterated in
Orders(members) ==
    { order \in [1..Cardinality(members) -> members] :
          \A i, j \in DOMAIN order : order[i] = order[j] => i = j }

\* the body of the for loop of Vari.update run for the animations of
\* `order`, one after the other: "if not anim.update(dt): spent |= {anim}"
RECURSIVE Pass(_, _, _, _)
Pass(order, os, values, dt) ==
    IF order = <<>>
    THEN [ objs |-> os, vars |-> values, spent |-> {} ]
    ELSE LET id == Head(order) IN
         \* r: the update of the first animation; rest: the pass over the others
         CHOOSE p \in UNION {
             { [rest EXCEPT !.spent = @ \cup (IF r.ret THEN {} ELSE {id})] :
                 rest \in { Pass(Tail(order), [os EXCEPT ![id] = r.self], r.vars, dt) } } :
             r \in { Anim_update(os[id], values, dt) } } : TRUE

Remaining_All(members, spent) == members

\* "self.anims -= spent"
Remaining(members, spent) == members \ spent

\* Vari.update(dt) when the set is iterated in `order`
Vari_update(self, os, order, dt) ==
    CHOOSE u \in {
        [ self  |-> [ vars |-> p.vars, anims |-> Remaining(self.anims, p.spent) ],
          objs  |-> p.objs,
          spent |-> p.spent ] : p \in { Pass(order, os, self.vars, dt) } } : TRUE

\* the animations made: each drives one key, any of the Vari's, from 0 to 4
\* over MaxPlay; every other one is STRAIGHT and plays once, the rest are
\* REVERSE and play forward and back
VariConfigs ==
    { c \in [AnimIds -> [ v : Keys, loop : Loops ]] :
          \A id \in AnimIds :
              c[id].loop = (IF id % 2 = 1 THEN STRAIGHT ELSE REVERSE) }

\* the deltas Vari.update is called with: zero, part of a span, past a span
VariDeltas == {0, 1, MaxPlay + 1}

\* what a call on the Vari did: the animations whose update it called, the
\* number of such calls, and the animations that returned False
Ticked(op, arg, order, spent) ==
    [ op |-> op, arg |-> arg, called |-> { order[i] : i \in DOMAIN order },
      calls |-> Len(order), spent |-> spent ]

InitVari ==
    /\ vari = Vari__init__([k \in Keys |-> Whole(0)])
    /\ \E c \in VariConfigs :
          objs = [ id \in AnimIds |->
                     Anim__init__(vari, c[id].v, Whole(4), MaxPlay, linear,
                                  c[id].loop,
                                  IF c[id].loop = REVERSE THEN 1 ELSE 0, 0, 0) ]
    /\ tick = Ticked("init", 0, <<>>, {})
    /\ animation = Idle /\ last = Idle /\ run = Idle /\ seen = Idle
    /\ anim = Idle /\ out = Idle /\ hist = Idle
    /\ entity = Idle /\ clips = Idle /\ told = Idle
    /\ closure = Idle /\ got = Idle
    /\ app = Idle /\ elems = Idle /\ heard = Idle

\* vari.add_anim(objs[id])
AddAnim ==
    \E id \in AnimIds :
        /\ vari' = Vari_add_anim(vari, id)
        /\ tick' = Ticked("add", id, <<>>, {})
        /\ UNCHANGED <<objs, anim, out, hist, animVars, seen, entityVars, lerpVars, appVars>>

\* vari.update(dt)
VariUpdate ==
    \E dt \in VariDeltas :
        \E order \in Orders(Iterated(vari, objs)) :
            \E r \in { Vari_update(vari, objs, order, dt) } :
            /\ vari' = r.self
            /\ objs' = r.objs
            /\ tick' = Ticked("update", dt, order, r.spent)
            /\ UNCHANGED <<anim, out, hist, animVars, seen, entityVars, lerpVars, appVars>>

NextVari == AddAnim \/ VariUpdate

SpecVari == InitVari /\ [][NextVari]_vars

\* positive deltas of any size: part of a span, past a span, past two spans
SteadyDeltas == {1, MaxPlay + 1, 2 * MaxPlay + 1}

\* vari.update(dt) with a positive dt
VariUpdateSteady ==
    \E dt \in SteadyDeltas :
        \E order \in Orders(Iterated(vari, objs)) :
            \E r \in { Vari_update(vari, objs, order, dt) } :
            /\ vari' = r.self
            /\ objs' = r.objs
            /\ tick' = Ticked("update", dt, order, r.spent)
            /\ UNCHANGED <<anim, out, hist, animVars, seen, entityVars, lerpVars, appVars>>

\* the animations the Vari is given here: one STRAIGHT, one REVERSE
SteadyIds == {1, 2}

\* vari.add_anim(objs[id]), at any time and in any state of objs[id]
AddAnimSteady ==
    \E id \in SteadyIds :
        /\ vari' = Vari_add_anim(vari, id)
        /\ tick' = Ticked("add", id, <<>>, {})
        /\ UNCHANGED <<objs, anim, out, hist, animVars, seen, entityVars, lerpVars, appVars>>

NextVariLive == AddAnimSteady \/ VariUpdateSteady

\* the Vari of SpecVari under a caller that keeps calling update with a
\* positive dt, as a game loop does every frame, and adds animations when
\* it pleases
SpecVariLive == InitVari /\ [][NextVariLive]_vars /\ WF_vars(VariUpdateSteady)

----------------------------------------------------------------------------
(* animator.Animated. clips holds the Animation objects by identity: the     *)
(* two the entity's dict maps a name to, and one the dict does not hold.     *)
(* A completion callback built by entity.switcher(target) is written as the  *)
(* identity of its target.                                                   *)

Names == {"walk", "idle"}
Stray == "stray"
Clips == Names \cup {Stray}

Range(f) == { f[x] : x \in DOMAIN f }

\* Animated.__init__: nothing is checked, nothing is started
Animated__init__(animations, current) ==
    [ animations |-> animations, current |-> current ]

switcher_NoReset(self, cs, to_switch, given) ==
    [ entity |-> [self EXCEPT !.current = to_switch],
      clips  |-> [cs EXCEPT ![to_switch] = play(@)] ]

switcher_PlayFirst(self, cs, to_switch, given) ==
    LET played == [cs EXCEPT ![to_switch] = play(@)] IN
    [ entity |-> [self EXCEPT !.current = to_switch],
      clips  |-> [played EXCEPT ![given] = reset(@)] ]

switcher_ToArgument(self, cs, to_switch, given) ==
    LET rewound == [cs EXCEPT ![given] = reset(@)] IN
    [ entity |-> [self EXCEPT !.current = given],
      clips  |-> [rewound EXCEPT ![to_switch] = play(@)] ]

\* the closure switcher_ returned by self.switcher(to_switch), called with
\* the animation `given`:
\* "animation.reset(); self.current = to_switch; to_switch.play()"
switcher_(self, cs, to_switch, given) ==
    LET rewound == [cs EXCEPT ![given] = reset(@)] IN
    [ entity |-> [self EXCEPT !.current = to_switch],
      clips  |-> [rewound EXCEPT ![to_switch] = play(@)] ]

\* one invocation of a transition: its target and the animation it was
\* called with
Ran(to_switch, given) == [ target |-> to_switch, arg |-> given ]

Animated_update_WritesAfter(self, cs, dt) ==
    LET r == Animation_update(cs[self.current], dt)
        updated == [cs EXCEPT ![self.current] = r.self]
        cb == cs[self.current].cb_complete
    IN  IF r.calls # <<>> /\ cb \in Clips
        THEN LET sw == switcher_(self, updated, cb, self.current) IN
             [ entity |-> sw.entity,
               clips |-> [sw.clips EXCEPT ![self.current] = r.self],
               ran |-> <<Ran(cb, self.current)>>, passed |-> r.calls ]
        ELSE [ entity |-> self, clips |-> updated, ran |-> <<>>,
               passed |-> <<>> ]

\* Animated.update(dt): self.current.update(dt), and with it the completion
\* callback of the current animation when that is a transition; on_complete
\* is the last statement of its branch of Animation.update, so what the
\* callback leaves is what update leaves. passed: the animation as the
\* callback was given it
Animated_update(self, cs, dt) ==
    LET r == Animation_update(cs[self.current], dt)
        updated == [cs EXCEPT ![self.current] = r.self]
        cb == cs[self.current].cb_complete
    IN  IF r.calls # <<>> /\ cb \in Clips
        THEN LET sw == switcher_(self, updated, cb, self.current) IN
             [ entity |-> sw.entity, clips |-> sw.clips,
               ran |-> <<Ran(cb, self.current)>>, passed |-> r.calls ]
        ELSE [ entity |-> self, clips |-> updated, ran |-> <<>>,
               passed |-> <<>> ]

\* style and callback of an animation of the dict: a looping one, and one
\* that stops on its last frame or one that rewinds, with or without a
\* transition to any animation as its callback
EntityConfigs ==
    { [style |-> LOOP, cb |-> None] }
    \cup [ style : {RESET, PAUSE}, cb : {None} \cup Clips ]

\* every animation has two frames of 2 units each
EntityDeltas == {0, 2, 5}

\* what the last call on the entity did (the transitions it invoked), and
\* whether so far an animation that is not a value of the dict was given as
\* current or as the target of a transition (foreign), and a transition was
\* invoked with an animation that was not the current one (offhand); busy:
\* the animation that was current when the call was made was playing then;
\* passed: the animations the transitions were invoked with, as they were
\* at the invocation
Told(op, ran, foreign, offhand, busy, passed) ==
    [ op |-> op, ran |-> ran, foreign |-> foreign, offhand |-> offhand,
      busy |-> busy, passed |-> passed ]

InitEntity ==
    /\ \E c \in [Names -> EntityConfigs], current \in Clips, started \in BOOLEAN :
          /\ clips = [ id \in Clips |->
                LET made == Animation__init__(SubSeq(FrameHandles, 1, 2), 1,
                                IF id \in Names THEN c[id].style ELSE LOOP,
                                IF id \in Names THEN c[id].cb ELSE None, 2)
                IN  IF started /\ id = current THEN play(made) ELSE made ]
          /\ entity = Animated__init__([n \in Names |-> n], current)
    /\ told = Told("init", <<>>, entity.current \notin Range(entity.animations),
                   FALSE, FALSE, <<>>)
    /\ animation = Idle /\ last = Idle /\ run = Idle /\ seen = Idle
    /\ vari = Idle /\ anim = Idle /\ out = Idle /\ hist = Idle
    /\ objs = Idle /\ tick = Idle
    /\ closure = Idle /\ got = Idle
    /\ app = Idle /\ elems = Idle /\ heard = Idle

\* entity.update(dt)
EntityUpdate ==
    \E dt \in EntityDeltas :
        /\ clips[entity.current].t + dt <= MaxSpans * clips[entity.current].t_full
        /\ \E r \in { Animated_update(entity, clips, dt) } :
              /\ entity' = r.entity
              /\ clips' = r.clips
              /\ told' = Told("update", r.ran,
                    told.foreign \/ \E i \in DOMAIN r.ran :
                        r.ran[i].target \notin Range(entity.animations),
                    told.offhand, clips[entity.current].playing, r.passed)
        /\ UNCHANGED <<animVars, shiftVars, seen, variVars, lerpVars, appVars>>

\* entity.switcher(to_switch)(animation), by any caller
Switch ==
    \E to_switch \in Clips, a \in Clips :
        \E r \in { switcher_(entity, clips, to_switch, a) } :
            /\ entity' = r.entity
            /\ clips' = r.clips
            /\ told' = Told("switch", <<Ran(to_switch, a)>>,
                  told.foreign \/ to_switch \notin Range(entity.animations),
                  told.offhand \/ a # entity.current,
                  clips[entity.current].playing, <<clips[a]>>)
            /\ UNCHANGED <<animVars, shiftVars, seen, variVars, lerpVars, appVars>>

NextEntity == EntityUpdate \/ Switch

SpecEntity == InitEntity /\ [][NextEntity]_vars

----------------------------------------------------------------------------
(* app.App, app.Element, app.InputBuffer                                     *)

\* the App itself, as the value of App.focused
App == "app"
\* the elements of the App: an InputBuffer and a plain Element
Buffers == {"line"}
Panels == {"panel"}
Elements == Buffers \cup Panels

\* the characters typed; both are in InputBuffer.LEGAL_KEYS
Typed == {"a", "b"}

\* a pygame event: its type, its key and the text the key produces, a
\* string of characters (BS, CR and ESC are the control characters). Home,
\* like the arrows and the modifiers, produces no text
KEYDOWN == "keydown"
KEYUP == "keyup"
Key(key, unicode) == [ type |-> KEYDOWN, key |-> key, unicode |-> unicode ]
Keys_Listed ==
    { Key(c, <<c>>) : c \in Typed }
        \cup { Key("backspace", <<"BS">>), Key("left", <<>>), Key("right", <<>>),
               Key("return", <<"CR">>), Key("escape", <<"ESC">>) }
Keys_Other ==
    { Key("home", <<>>), Key("lshift", <<>>),
      [ type |-> KEYUP, key |-> "a", unicode |-> <<>> ] }
Events == Keys_Listed \cup Keys_Other

\* "event.unicode in self.LEGAL_KEYS": a substring test, which the empty
\* string passes
InLegalKeys(unicode) ==
    Len(unicode) = 0 \/ (Len(unicode) = 1 /\ unicode[1] \in Typed)
\* "event.key not in self.ILLEGAL_KEYS"
InIllegalKeys(key) == key = "lshift"

\* buffer[:k] and buffer[k:], for k >= 0
Upto(buffer, k) == SubSeq(buffer, 1, Min(k, Len(buffer)))
From(buffer, k) == SubSeq(buffer, Min(k, Len(buffer)) + 1, Len(buffer))

\* the App and its elements, and what send has been called with
World(a, es, sent) == [ app |-> a, elems |-> es, sent |-> sent ]

\* App.__init__, Element.__init__, InputBuffer.__init__
App__init__ == [ focused |-> App ]
Element__init__ == [ focused |-> FALSE ]
InputBuffer__init__ == [ focused |-> FALSE, buffer |-> <<>>, index |-> 0 ]

\* App.on_focus: "self.focused = self"
App_on_focus(w) == [w EXCEPT !.app.focused = App]

\* Element.on_focus (InputBuffer.on_focus only calls it)
Element_on_focus(w, e) == [w EXCEPT !.elems[e].focused = TRUE]

\* Element.on_unfocus: "self.focused = False; self.parent.on_focus()"
Element_on_unfocus(w, e) == App_on_focus([w EXCEPT !.elems[e].focused = FALSE])

InputBuffer_on_unfocus_KeepsText(w, e) == Element_on_unfocus(w, e)

\* InputBuffer.on_unfocus: the same, then "self.buffer = ''; self.index = 0"
InputBuffer_on_unfocus(w, e) ==
    [Element_on_unfocus(w, e) EXCEPT !.elems[e].buffer = <<>>,
                                     !.elems[e].index = 0]

\* on_unfocus of whatever has the focus: the App's does nothing
on_unfocus(w, x) ==
    IF x = App THEN w
    ELSE IF x \in Buffers THEN InputBuffer_on_unfocus(w, x)
    ELSE Element_on_unfocus(w, x)

App_focus_NoUnfocus(w, e) ==
    Element_on_focus([w EXCEPT !.app.focused = e], e)

\* App.focus(element):
\* "self.focused.on_unfocus(); self.focused = element; element.on_focus()"
App_focus(w, e) ==
    Element_on_focus([on_unfocus(w, w.app.focused) EXCEPT !.app.focused = e], e)

\* InputBuffer.on_send: "self.send(self.buffer); self.on_unfocus()"
InputBuffer_on_send(w, e) ==
    InputBuffer_on_unfocus([w EXCEPT !.sent = Append(@, w.elems[e].buffer)], e)

\* InputBuffer.set_buffer
InputBuffer_set_buffer(w, e, buffer) ==
    [w EXCEPT !.elems[e].buffer = buffer, !.elems[e].index = Len(buffer)]

Right_Unbounded(self) == self.index + 1

\* "min(len(self.buffer), self.index + 1)"
Right(self) == Min(Len(self.buffer), self.index + 1)

\* InputBuffer.on_event(event)
InputBuffer_on_event(w, e, event) ==
    LET self == w.elems[e] IN
    IF ~(event.type = KEYDOWN /\ self.focused) THEN w
    ELSE IF event.key = "return" THEN InputBuffer_on_send(w, e)
    ELSE IF event.key = "escape" THEN InputBuffer_on_unfocus(w, e)
    ELSE IF event.key = "backspace" /\ Len(self.buffer) > 0 /\ self.index > 0
    THEN [w EXCEPT !.elems[e].buffer =
                       Upto(self.buffer, self.index - 1) \o From(self.buffer, self.index),
                   !.elems[e].index = self.index - 1]
    ELSE IF event.key = "left"
    THEN [w EXCEPT !.elems[e].index = Max(0, self.index - 1)]
    ELSE IF event.key = "right"
    THEN [w EXCEPT !.elems[e].index = Right(self)]
    ELSE IF InLegalKeys(event.unicode) /\ ~InIllegalKeys(event.key)
    THEN [w EXCEPT !.elems[e].buffer =
                       Upto(self.buffer, self.index) \o event.unicode
                           \o From(self.buffer, self.index),
                   !.elems[e].index = self.index + 1]
    ELSE w

\* "self.focused.on_event(event)" of App.run: App.on_event and
\* Element.on_event do nothing
Dispatch(w, event) ==
    IF w.app.focused \in Buffers
    THEN InputBuffer_on_event(w, w.app.focused, event)
    ELSE w

\* the texts set_buffer is given
RECURSIVE Texts(_)
Texts(n) ==
    IF n = 0 THEN { <<>> }
    ELSE Texts(n - 1) \cup { Append(text, c) : text \in Texts(n - 1), c \in Typed }

\* what the last call did: the element or event it was given, what had the
\* focus when it was made (the receiver of an event), what send was called
\* with, and whether so far an event
\* other than the keys listed (a character, Backspace, Left, Right, Return,
\* Escape) was delivered
Heard(op, arg, to, sent, other) ==
    [ op |-> op, arg |-> arg, to |-> to, sent |-> sent, other |-> other ]

InitApp ==
    /\ app = App__init__
    /\ elems = [ e \in Elements |->
                   IF e \in Buffers THEN InputBuffer__init__ ELSE Element__init__ ]
    /\ heard = Heard("init", None, None, <<>>, FALSE)
    /\ animation = Idle /\ last = Idle /\ run = Idle /\ seen = Idle
    /\ vari = Idle /\ anim = Idle /\ out = Idle /\ hist = Idle
    /\ objs = Idle /\ tick = Idle
    /\ entity = Idle /\ clips = Idle /\ told = Idle
    /\ closure = Idle /\ got = Idle

\* app.focus(e)
Focus ==
    \E e \in Elements :
        \E w \in { App_focus(World(app, elems, <<>>), e) } :
            /\ app' = w.app
            /\ elems' = w.elems
            /\ heard' = Heard("focus", e, app.focused, w.sent, heard.other)
            /\ UNCHANGED <<animVars, shiftVars, seen, variVars, entityVars, lerpVars>>

\* one event of the loop of App.run
Deliver ==
    \E event \in Events :
        \E w \in { Dispatch(World(app, elems, <<>>), event) } :
            /\ \A b \in Buffers : /\ Len(w.elems[b].buffer) <= MaxBuffer
                                  /\ w.elems[b].index <= MaxBuffer + 1
            /\ app' = w.app
            /\ elems' = w.elems
            /\ heard' = Heard("event", event, app.focused, w.sent,
                              heard.other \/ event \in Keys_Other)
            /\ UNCHANGED <<animVars, shiftVars, seen, variVars, entityVars, lerpVars>>

\* b.set_buffer(text), by any caller
SetBuffer ==
    \E b \in Buffers, text \in Texts(MaxBuffer) :
        \E w \in { InputBuffer_set_buffer(World(app, elems, <<>>), b, text) } :
            /\ app' = w.app
            /\ elems' = w.elems
            /\ heard' = Heard("set_buffer", b, app.focused, w.sent, heard.other)
            /\ UNCHANGED <<animVars, shiftVars, seen, variVars, entityVars, lerpVars>>

NextApp == Focus \/ Deliver \/ SetBuffer

SpecApp == InitApp /\ [][NextApp]_vars

----------------------------------------------------------------------------
(* Properties of the Animation *)

RECURSIVE Sum(_)
Sum(s) == IF s = <<>> THEN 0 ELSE Head(s) + Sum(Tail(s))

FrameSet(self) == { self.frames[i] : i \in 1..Len(self.frames) }

\* the animation as it was before the current run of update calls
RunStart == [animation EXCEPT !.t = run.t, !.frame = run.frame]

\* C1: a Frame Animation built from a non-empty frame sequence with a
\* positive fps never raises in update(dt), dt >= 0, and after every update
\* the current frame is one of its frames, the computed index lying in
\* 0..frameCount-1, for all three styles and also when elapsed equals
\* totalDuration exactly.  (Stated as claimed; the code violates it.)
C1_UpdateNeverRaises ==
    last.op = "update" =>
        /\ ~last.raised
        /\ last.index # -1 => last.index \in 0..(Len(animation.frames) - 1)
        /\ animation.frame \in FrameSet(animation)

\* C2: the first update of a playing PauseAtEnd (ResetAtEnd) animation that
\* makes elapsed exceed totalDuration snaps the frame to the last (first)
\* frame, stops playing and calls the completion callback exactly once,
\* inside that call, with the animation itself.
C2_CompletesOnce ==
    [][ ( /\ last'.op = "update"
          /\ animation.playing
          /\ animation.style \in {PAUSE, RESET}
          /\ ~PastEnd(animation)
          /\ PastEnd(animation') )
        => ( /\ animation'.frame =
                  (IF animation.style = PAUSE THEN animation.end ELSE animation.start)
             /\ ~animation'.playing
             /\ ~last'.raised
             /\ last'.calls =
                  (IF animation.cb_complete # None THEN <<animation'>> ELSE <<>>) )
      ]_vars

C2_Witness ==
    /\ last.op = "update"
    /\ animation.style = PAUSE
    /\ Len(animation.frames) > 1
    /\ last.calls = <<animation>>
    /\ animation.frame = animation.end
    /\ ~animation.playing

\* C3: update is a no-op whenever the animation is not playing, for every
\* style and delta: elapsed, frame and playing are unchanged and the
\* completion callback is not called (so a terminated PauseAtEnd/ResetAtEnd
\* animation stays as it is).
C3_NoOpWhenStopped ==
    [][ (last'.op = "update" /\ ~animation.playing)
        => (animation' = animation /\ last'.calls = <<>> /\ ~last'.raised) ]_vars

C3_Witness ==
    /\ last.op = "update"
    /\ last.dt > 0
    /\ animation.style \in {PAUSE, RESET}
    /\ PastEnd(animation)
    /\ ~animation.playing
    /\ last.calls = <<>>
    /\ ~run.playing
    /\ Len(run.dts) >= 1
    /\ animation.t = run.t

\* C4 (step): an update of a playing Loop animation leaves elapsed =
\* (previous elapsed + dt) mod totalDuration, within [0, totalDuration), and
\* the frame frames[floor(elapsed / frameDuration)].
C4_LoopStep ==
    (last'.op = "update" /\ animation.playing /\ animation.style = LOOP)
    => ( /\ animation'.t = (animation.t + last'.dt) % animation.t_full
         /\ animation'.t >= 0 /\ animation'.t < animation.t_full
         /\ ~last'.raised
         /\ last'.index = animation'.t \div animation.frame_delay
         /\ animation'.frame = Item(animation.frames, last'.index) )

\* C4 (composition): a run of updates leaves the state a single update by
\* the sum of the deltas leaves; 4 frames at 8 fps after update(100) then
\* update(50) from elapsed 0 show frame index 1.
C4_LoopRun ==
    (animation.style = LOOP /\ animation.playing /\ Len(run.dts) >= 1)
    => ( /\ animation = Animation_update(RunStart, Sum(run.dts)).self
         /\ ( /\ animation.fps = 8 /\ animation.unit_per_s = UnitPerS
               /\ Len(animation.frames) = 4
               /\ run.t = 0 /\ run.dts = <<100, 50>> )
            => ( /\ animation.frame_delay = 125
                 /\ last.index = 1
                 /\ animation.frame = Item(animation.frames, 1) ) )

\* C4: for a playing Loop animation every update(dt), dt >= 0, gives
\* elapsed = (elapsed + dt) mod totalDuration and the frame at
\* floor(elapsed / frameDuration), so update(a) then update(b) equals
\* update(a+b); 4 frames at 8 fps: update(100), update(50) give index 1.
C4_Loop == [][C4_LoopStep]_vars /\ []C4_LoopRun

C4_Witness ==
    /\ animation.style = LOOP /\ animation.playing
    /\ animation.fps = 8 /\ Len(animation.frames) = 4
    /\ run.t = 0 /\ run.dts = <<100, 50>>
    /\ last.index = 1

\* C5: on a playing Loop animation, update calls whose deltas sum to a
\* whole multiple k >= 0 of totalDuration bring elapsed and the current
\* frame back to what they were before the calls.
C5_WrapIdempotent ==
    ( /\ animation.style = LOOP /\ animation.playing
      /\ Len(run.dts) >= 1
      /\ Sum(run.dts) % animation.t_full = 0 )
    => (animation.t = run.t /\ animation.frame = run.frame)

C5_Witness ==
    /\ animation.style = LOOP /\ animation.playing
    /\ Len(run.dts) = 3
    /\ run.t > 0
    /\ Sum(run.dts) = 2 * animation.t_full
    /\ animation.t = run.t

----------------------------------------------------------------------------
(* Properties of the Anim *)

\* the property the animation drives, as the Vari holds it
Driven == vari.vars[anim.v]

\* the start and end values the animation interpolates between
StartValue == anim.f_anim.p
EndValue == anim.q

IsScenario ==
    /\ anim.t_play = Scenario.t_play /\ anim.f = Scenario.f
    /\ anim.loop = Scenario.loop /\ hist.repeat = Scenario.repeat
    /\ anim.delay_start = Scenario.delay_start /\ anim.delay_end = Scenario.delay_end
    /\ StartValue = Whole(Scenario.p) /\ EndValue = Whole(Scenario.q)

\* C6: Straight, playDuration 1000, no delays, repeat 0, linear, 0 to 10:
\* update(500) sets the property to 5 and returns true; the following
\* update(600) sets it to 10, stops the animation and returns false.  For
\* repeat 0 in general, the first update that takes the clock past totalSpan
\* writes the end-value sample, stops the animation and returns false.
C6_StraightScenario ==
    out.op = "update" =>
        /\ (IsScenario /\ out.was.playing /\ out.was.t = 0 /\ out.dt = 500)
           => (Driven = Whole(5) /\ out.ret /\ anim.playing)
        /\ (IsScenario /\ out.was.playing /\ out.was.t = 500 /\ out.dt = 600)
           => (Driven = Whole(10) /\ ~out.ret /\ ~anim.playing)
        /\ ( /\ anim.loop = STRAIGHT /\ hist.repeat = 0 /\ out.was.playing
             /\ out.was.t + out.dt > anim.t_end )
           => ( /\ Driven = Apply(anim.f_anim, anim.t_end)
                /\ Driven = EndValue
                /\ ~out.ret /\ ~anim.playing )

C6_Witness ==
    /\ IsScenario /\ out.op = "update"
    /\ out.was.playing /\ out.was.t = 500 /\ out.dt = 600
    /\ Driven = Whole(10) /\ ~out.ret

\* C7 as claimed: the update call in which a Property Animation finishes
\* fires its completion callback exactly once before returning.
C7_CallbackFiredOnce ==
    (out.op = "update" /\ out.finished) => Len(out.calls) = 1

\* C7, amended: the update call in which a Property Animation finishes
\* (repeat drops below zero at a boundary) stops it and returns false, this
\* happens at most once in the animation's life, and no completion callback
\* is fired: shift.Anim has none.
C7_FinishSignalledOnce ==
    /\ hist.finishes <= 1
    /\ (out.op = "update" /\ out.finished)
       => ( /\ out.was.playing /\ ~anim.playing /\ ~out.ret
            /\ anim.repeat < 0
            /\ out.calls = <<>> )

C7_Witness ==
    /\ out.op = "update" /\ out.finished
    /\ anim.loop = REVERSE /\ ~anim.play_forward
    /\ hist.finishes = 1

\* a Reverse animation has just finished, having been driven only by deltas
\* strictly between 0 and totalSpan
ReverseFinished(repeat) ==
    /\ out.op = "update" /\ out.finished
    /\ anim.loop = REVERSE /\ hist.repeat = repeat
    /\ hist.small

\* C8 as claimed: Reverse with repeat = 1 (two half-repeats), driven by
\* 0 < dt < totalSpan, finishes after exactly one forward and one backward
\* traversal with the property at the start value.
C8_EndsAtStart ==
    ReverseFinished(2) => (hist.legs = <<TRUE, FALSE>> /\ Driven = StartValue)

\* C8, amended: Reverse with repeat = 1, driven by 0 < dt < totalSpan,
\* finishes after a forward, a backward and a second forward traversal, with
\* the property at the end value.
C8_ForwardBackForward ==
    ReverseFinished(2) => (hist.legs = <<TRUE, FALSE, TRUE>> /\ Driven = EndValue)

C8_Witness ==
    ReverseFinished(2) /\ Len(hist.legs) = 3 /\ anim.delay_start > 0

\* C9 as claimed: Reverse with repeat = 0.5 (one half-repeat), driven by
\* 0 < dt < totalSpan, finishes after exactly one forward traversal with the
\* property at the end value.
C9_EndsAtEnd ==
    ReverseFinished(1) => (hist.legs = <<TRUE>> /\ Driven = EndValue)

\* C9, amended: Reverse with repeat = 0.5, driven by 0 < dt < totalSpan,
\* finishes after one forward and one backward traversal, with the property
\* at the start value.
C9_ForwardBack ==
    ReverseFinished(1) => (hist.legs = <<TRUE, FALSE>> /\ Driven = StartValue)

C9_Witness ==
    ReverseFinished(1) /\ Len(hist.legs) = 2 /\ anim.f = polynomial

\* C10: update returns true exactly when the animation is playing after the
\* call: false in the call that finishes it and in every later call, true
\* in every call that leaves it playing.
C10_ReturnsPlaying ==
    out.op = "update" => (out.ret <=> anim.playing)

C10_Witness ==
    /\ out.op = "update"
    /\ ~out.was.playing /\ ~out.ret
    /\ hist.finishes = 1


----------------------------------------------------------------------------
(* Properties of SpecFrame: indexing, reset, play and pause                  *)

FrameIndex(self) ==
    CHOOSE i \in 0..(Len(self.frames) - 1) : Item(self.frames, i) = self.frame

\* C18: with distinct frames, anim[k] is the frame k places after the
\* current frame, cyclically: frames[(index of the current frame + k) mod
\* frame count]; anim[1] is the frame that follows the current one.
C18_IndexFromCurrent ==
    seen.op = "getitem" =>
        seen.frame = Item(animation.frames,
                          (FrameIndex(animation) + seen.arg) % Len(animation.frames))

\* C19: reset() leaves the animation as a freshly constructed one of the same
\* arguments: elapsed 0, first frame, not playing; no completion callback is
\* called.
C19_ResetIsFresh ==
    seen.op = "reset" =>
        /\ animation = Animation__init__(seen.was.frames, seen.was.fps,
                                         seen.was.style, seen.was.cb_complete,
                                         seen.was.unit_per_s)
        /\ animation.t = 0
        /\ animation.frame = Item(seen.was.frames, 0)
        /\ ~animation.playing
        /\ seen.calls = <<>>

\* an animation with a callback that had ended on its last frame is reset
C19_Witness ==
    /\ seen.op = "reset"
    /\ animation.style = PAUSE
    /\ animation.cb_complete # None
    /\ PastEnd(seen.was)
    /\ seen.was.frame = seen.was.end
    /\ seen.was.end # seen.was.start

\* C20: play() and pause() change playing and nothing else (elapsed and the
\* frame stay); each is idempotent; an animation played after a pause goes on
\* from the elapsed time it was paused at.
C20_PlayPauseOnlyPlaying ==
    /\ (seen.op = "play") =>
          /\ animation = [seen.was EXCEPT !.playing = TRUE]
          /\ seen.calls = <<>>
          /\ \A dt \in Deltas(animation) :
                Animation_update(animation, dt).self.t =
                    IF animation.style = LOOP
                    THEN (seen.was.t + dt) % animation.t_full
                    ELSE seen.was.t + dt
    /\ (seen.op = "pause") =>
          /\ animation = [seen.was EXCEPT !.playing = FALSE]
          /\ seen.calls = <<>>
    /\ play(play(animation)) = play(animation)
    /\ pause(pause(animation)) = pause(animation)

\* a looping animation stopped part-way is played again
C20_Witness ==
    /\ seen.op = "play"
    /\ animation.style = LOOP
    /\ ~seen.was.playing
    /\ seen.was.t > 0
    /\ animation.t = seen.was.t
    /\ animation.playing

----------------------------------------------------------------------------
(* Properties of SpecVari: the container's update pass                       *)

\* the animations of the set that drive `key`
Drivers(key) == { id \in vari.anims : objs[id].v = key }

\* C11: one Vari.update(dt) calls update(dt) exactly once on every animation
\* that is in the set when it starts, has every value they write stored when
\* it returns, and leaves in the set exactly the animations whose update
\* returned true: the finished ones leave in this call, after all were
\* updated.
C11_PassStep ==
    (tick'.op = "update") =>
        /\ tick'.called = vari.anims
        /\ tick'.calls = Cardinality(vari.anims)
        /\ vari'.anims \subseteq vari.anims
        /\ tick'.spent \subseteq vari.anims
        /\ \A id \in vari.anims :
              \* r: what one update(dt) of animation id does and returns
              \A r \in { Anim_update(objs[id], vari.vars, tick'.arg) } :
                  /\ objs'[id] = r.self
                  /\ (Drivers(objs[id].v) = {id}) =>
                        (vari'.vars[objs[id].v] = r.vars[objs[id].v])
                  /\ (id \in vari'.anims) <=> r.ret
                  /\ (id \in tick'.spent) <=> ~r.ret

C11_UpdatesAllThenRemoves == [][C11_PassStep]_vars

\* a pass over two animations of which one finished and left, and the other
\* moved on and stayed
C11_Witness ==
    /\ tick.op = "update"
    /\ tick.calls = 2
    /\ Cardinality(tick.spent) = 1
    /\ vari.anims = tick.called \ tick.spent
    /\ \A id \in tick.spent : ~objs[id].playing
    /\ \E id \in vari.anims : objs[id].playing /\ objs[id].t > 0

\* C12: every animation in the set of a Vari is playing, after any sequence
\* of add_anim and update calls, add_anim of a finished animation included.
C12_ActiveArePlaying ==
    \A id \in vari.anims : objs[id].playing

\* C13: Vari.update(dt) leaves every animation that is not in the set as it
\* is (clock, repeat count and all), and leaves every value no animation of
\* the set drives as it is.
C13_InertStep ==
    (tick'.op = "update") =>
        /\ \A id \in AnimIds \ vari.anims : objs'[id] = objs[id]
        /\ \A key \in Keys :
              (Drivers(key) = {}) => (vari'.vars[key] = vari.vars[key])

C13_OutsideIsInert == [][C13_InertStep]_vars

\* a pass has moved an animation of the set while a playing animation on
\* another key, not in the set, is still at its start and its key at its
\* first value
C13_Witness ==
    /\ tick.op = "update"
    /\ tick.arg > 0
    /\ \E id \in tick.called, other \in AnimIds \ tick.called :
          /\ objs[id].t > 0
          /\ objs[other].playing
          /\ objs[other].t = 0
          /\ objs[other].v # objs[id].v
          /\ vari.vars[objs[other].v] = Whole(0)
          /\ vari.vars[objs[id].v] # Whole(0)

----------------------------------------------------------------------------
(* Properties of SpecEntity: switching                                       *)

\* C14 as claimed: every invocation of a transition built by
\* switcher(target), whatever animation it is invoked with, leaves the
\* animation that was current before it with elapsed 0, on its first frame
\* and not playing, and leaves the target current and playing.
C14_PreviousStep ==
    (told'.ran # <<>>) =>
        LET x == told'.ran[1]
            previous == entity.current IN
        /\ clips'[previous].t = 0
        /\ clips'[previous].frame = clips'[previous].start
        /\ ~clips'[previous].playing
        /\ entity'.current = x.target
        /\ clips'[x.target].playing

C14_SwitchResetsPrevious == [][C14_PreviousStep]_vars

\* C14: every invocation of a transition built by switcher(target) resets the
\* animation it is invoked with: afterwards that animation has elapsed 0 and
\* is on its first frame, and it is not playing unless it is the target; the
\* target is current and playing. Invoked with the current animation, which is
\* not the target, it leaves the previously current animation reset and
\* stopped.
C14_GivenStep ==
    (told'.ran # <<>>) =>
        LET x == told'.ran[1]
            previous == entity.current IN
        /\ clips'[x.arg].t = 0
        /\ clips'[x.arg].frame = clips'[x.arg].start
        /\ (x.arg # x.target) => ~clips'[x.arg].playing
        /\ entity'.current = x.target
        /\ clips'[x.target].playing
        /\ (x.arg = previous /\ previous # x.target) =>
              /\ clips'[previous] = reset(clips[previous])
              /\ ~clips'[previous].playing

C14_SwitchResetsGiven == [][C14_GivenStep]_vars

\* the current animation played to its end and its callback, a transition to
\* another animation, ran: the one is rewound and stopped, the other current
\* and playing
C14_Witness ==
    /\ told.op = "update"
    /\ told.ran # <<>>
    /\ told.ran[1].arg # told.ran[1].target
    /\ clips[told.ran[1].arg].t = 0
    /\ ~clips[told.ran[1].arg].playing
    /\ entity.current = told.ran[1].target
    /\ clips[entity.current].playing

\* C15 as claimed: in every reachable state current is a value of the
\* entity's animations dict.
C15_CurrentAlwaysMapped ==
    entity.current \in Range(entity.animations)

\* C15: when the animation given to the constructor as current and the
\* target of every transition invoked are values of the entity's animations
\* dict, current is a value of that dict in every reachable state.
C15_CurrentIsMapped ==
    ~told.foreign => entity.current \in Range(entity.animations)

\* a transition to an animation of the dict was invoked with the animation
\* the dict does not hold
C15_Witness ==
    /\ ~told.foreign
    /\ told.op = "switch"
    /\ told.ran[1].arg = Stray
    /\ entity.current = told.ran[1].target
    /\ entity.current \in Range(entity.animations)

\* C16 as claimed: after any switches and updates of an entity that starts
\* with at most its current animation playing, an animation that is playing
\* is the current one (so at most one plays, and a switch leaves the outgoing
\* and the incoming one never both playing).
C16_OnlyCurrentPlays ==
    \A id \in Clips : clips[id].playing => id = entity.current

\* C16: the same, as long as every transition has been invoked with the
\* animation that was current at the time.
C16_OnlyCurrentPlaysAfterOwnSwitches ==
    ~told.offhand => \A id \in Clips : clips[id].playing => id = entity.current

\* a transition invoked with the current animation while that was playing
\* has made another animation current: that one plays, the outgoing one is
\* stopped
C16_Witness ==
    /\ ~told.offhand
    /\ told.op = "switch"
    /\ told.ran[1].arg # told.ran[1].target
    /\ entity.current = told.ran[1].target
    /\ clips[entity.current].playing
    /\ told.busy
    /\ ~clips[told.ran[1].arg].playing

----------------------------------------------------------------------------
(* Properties of SpecProp: the value written, the clock, the repeats         *)

\* x lies between a and b, whichever of the two is the larger
Between(x, a, b) ==
    \/ RatLeq(a, x) /\ RatLeq(x, b)
    \/ RatLeq(b, x) /\ RatLeq(x, a)

\* C25: with linear smoothing, the value an update(dt), dt >= 0 of any size,
\* writes lies between the start and the end value, in both loop styles and
\* with any delays; it is the start value while t <= delay_start and the end
\* value while t >= delay_start + t_play.
C25_ValueInRange ==
    (out.op = "update" /\ out.was.playing /\ anim.f = linear) =>
        /\ Between(Driven, hist.p, hist.q)
        /\ (anim.t <= anim.delay_start) => (Driven = hist.p)
        /\ (anim.t >= anim.delay_start + anim.t_play) => (Driven = hist.q)

\* a REVERSE animation with both delays, turned back at its end, is
\* part-way between its values
C25_Witness ==
    /\ out.op = "update"
    /\ out.was.playing
    /\ anim.f = linear
    /\ anim.loop = REVERSE
    /\ anim.delay_start > 0 /\ anim.delay_end > 0
    /\ ~anim.play_forward
    /\ Driven # hist.p /\ Driven # hist.q

\* C26: the start value of an animation is the value the Vari held for its
\* key when the animation was made; no later write to that key, by the
\* animation or by other code, changes the start or the end value that the
\* samples are computed from.
C26_StartCaptured ==
    /\ anim.f_anim.p = hist.p
    /\ anim.f_anim.q = hist.q
    /\ anim.q = hist.q
    /\ (out.op = "update" /\ out.ret) =>
          Driven = interpolate(hist.p, hist.q,
                       Rat(Max(anim.delay_start,
                               Min(anim.delay_start + anim.t_play, anim.t))
                               - anim.delay_start, anim.t_play),
                       anim.f)

\* other code has just stored a value under the key of an animation that is
\* part-way: the start value is still the one of construction
C26_Witness ==
    /\ out.op = "setitem"
    /\ anim.playing
    /\ anim.t > anim.delay_start
    /\ Driven \in Stored
    /\ Driven # hist.p
    /\ anim.f_anim.p = hist.p

\* the threshold of C27: (r + 1) spans, for the integer repeat r
Spans == ((hist.repeat \div 2) + 1) * anim.t_end

\* C27 as claimed: a STRAIGHT animation of integer repeat r has returned
\* finished exactly when the sum of its deltas has passed (r + 1) spans,
\* however the time is split, a delta of several spans included.
C27_FinishesByElapsed ==
    (anim.loop = STRAIGHT /\ hist.repeat % 2 = 0) =>
        ((hist.finishes >= 1) <=> (hist.total > Spans))

\* C27: a STRAIGHT animation of integer repeat r whose deltas are all
\* shorter than its span has returned finished exactly when the sum of its
\* deltas has passed (r + 1) spans; one update takes at most one repeat,
\* however many spans its delta covers.
C27_FinishesByElapsedShortDeltas ==
    (anim.loop = STRAIGHT /\ hist.repeat % 2 = 0) =>
        /\ hist.below => ((hist.finishes >= 1) <=> (hist.total > Spans))
        /\ (out.op = "update") => (anim.repeat >= out.was.repeat - 2)

\* an animation of repeat 1, updated in deltas shorter than its span, has
\* finished in the update that took the sum past two spans
C27_Witness ==
    /\ anim.loop = STRAIGHT
    /\ hist.repeat = 2
    /\ hist.below
    /\ out.op = "update"
    /\ out.finished
    /\ out.dt > 0
    /\ hist.total > Spans

\* C28: after an update(dt), dt >= 0 of any size, that returns true, 0 <= t
\* <= t_end, in both loop styles; a REVERSE animation plays backward only
\* after it met the end boundary, forward only at the start or after it met
\* the start boundary.
C28_ClockInSpan ==
    (out.op = "update" /\ out.ret) =>
        /\ 0 <= anim.t /\ anim.t <= anim.t_end
        /\ (anim.loop = REVERSE /\ ~anim.play_forward) =>
              (hist.legs # <<>> /\ hist.legs[Len(hist.legs)])
        /\ (anim.loop = REVERSE /\ anim.play_forward) =>
              (hist.legs = <<>> \/ ~hist.legs[Len(hist.legs)])

\* C29: update(0) of a playing animation, in any reachable state, leaves t,
\* repeat and the direction as they are and the animation playing, returns
\* true and writes the value the update before wrote.
C29_ZeroDeltaNoOp ==
    (out.op = "update" /\ out.dt = 0 /\ out.was.playing) =>
        /\ anim.t = out.was.t
        /\ anim.repeat = out.was.repeat
        /\ anim.play_forward = out.was.play_forward
        /\ anim.playing
        /\ out.ret
        /\ Driven = Apply(out.was.f_anim, out.was.t)

----------------------------------------------------------------------------
(* Properties of SpecFrame: how often the completion callback is called     *)

\* C30 as claimed: the completion callback of a PAUSE or RESET animation is
\* called at most once between two consecutive reset() calls, whatever play,
\* pause and update(dt), dt >= 0, come between; play() on an ended animation
\* followed by update does not call it again.
C30_OncePerReset ==
    seen.fired.reset <= 1

\* C30: the completion callback of a PAUSE or RESET animation is called at
\* most once after each play(), whatever pause and update(dt), dt >= 0,
\* follow it up to the next play() or reset(); an update of an ended
\* animation that was played again without reset() calls it again.
C30_OncePerPlay ==
    /\ seen.fired.play <= 1
    /\ (/\ seen.op = "update"
        /\ seen.was.playing
        /\ seen.was.style \in {PAUSE, RESET}
        /\ seen.was.cb_complete # None
        /\ PastEnd(seen.was)) => (Len(seen.calls) = 1)

\* an ended animation was played again without reset() and updated by 0: the
\* callback is called a second time since the last reset()
C30_Witness ==
    /\ seen.op = "update"
    /\ seen.arg = 0
    /\ PastEnd(seen.was)
    /\ seen.was.playing
    /\ Len(seen.calls) = 1
    /\ seen.fired.play = 1
    /\ seen.fired.reset = 2

----------------------------------------------------------------------------
(* Properties of SpecMake: construction errors                               *)

\* C21 as claimed: constructing an Animation with no frames, or with fps
\* zero or negative, raises; no Animation with no frames or with
\* frame_delay <= 0 is ever made.
C21_RejectsNonPositive ==
    (seen.op = "init") =>
        /\ (seen.frames = 0 \/ seen.fps <= 0) => (seen.raised # None)
        /\ (seen.raised = None) =>
              (Len(animation.frames) > 0 /\ animation.frame_delay > 0)

\* C21: constructing an Animation with fps zero raises (ZeroDivisionError),
\* and with no frames and fps not zero raises (IndexError); any other
\* construction returns, so that, units per second being positive, no
\* Animation with no frames or with frame_delay = 0 is ever made, and one
\* with negative fps is made with a negative frame_delay.
C21_RejectsZero ==
    (seen.op = "init") =>
        /\ (seen.fps = 0) <=> (seen.raised = "ZeroDivisionError")
        /\ (seen.frames = 0 /\ seen.fps # 0) <=> (seen.raised = "IndexError")
        /\ (seen.raised = None) =>
              /\ Len(animation.frames) = seen.frames
              /\ Len(animation.frames) > 0
              /\ animation.frame_delay # 0
              /\ animation.frame_delay * seen.fps = seen.unit_per_s
              /\ (seen.fps < 0) <=> (animation.frame_delay < 0)
        /\ (seen.raised # None) => (animation = Idle)

\* a constructor call with no frames and fps zero has raised
C21_Witness ==
    /\ seen.op = "init"
    /\ seen.frames = 0
    /\ seen.fps = 0
    /\ seen.raised # None
    /\ animation = Idle

----------------------------------------------------------------------------
(* Properties of SpecLerp: windowed interpolation                            *)

\* C22 as claimed: building a windowed interpolator with t_max = t_min
\* fails at construction.
C22_FailsAtConstruction ==
    (got.op = "lerp" /\ closure.t_max = closure.t_min) => (got.raised # None)

\* C22: building a windowed interpolator never fails, whatever its bounds;
\* with t_max = t_min every call of the interpolator built fails with a
\* division by zero, whatever the operands, and with t_max # t_min no call
\* fails so.
C22_FailsAtFirstCall ==
    /\ (got.op = "lerp") => (got.raised = None)
    /\ (got.op = "call") =>
          ((closure.t_max = closure.t_min) <=> (got.raised = "ZeroDivisionError"))

\* an interpolator with t_max = t_min was built and has failed at a call
C22_Witness ==
    /\ got.op = "call"
    /\ closure.t_max = closure.t_min
    /\ closure.p.iter = closure.q.iter
    /\ got.raised = "ZeroDivisionError"

\* one operand of the closure is a number and the other a tuple
Mixed == closure.p.iter # closure.q.iter
\* both operands of the closure are tuples
Tuples == closure.p.iter /\ closure.q.iter

\* C23 as claimed: interpolate raises whenever one operand is a number and
\* the other a tuple, and whenever both are tuples of different lengths.
C23_MismatchRaises ==
    (got.op = "interpolate") =>
        ((Mixed \/ (Tuples /\ Len(closure.p.at) # Len(closure.q.at)))
            => (got.raised # None))

\* C23: interpolate raises (TypeError) whenever one operand is a number and
\* the other a tuple, and raises (IndexError) whenever both are tuples and p
\* is the longer; when both are tuples and q is the longer it returns a
\* tuple of the length of p, interpolated between p and the first
\* components of q.
C23_MismatchRaisesUnlessQLonger ==
    (got.op = "interpolate") =>
        /\ Mixed => (got.raised = "TypeError")
        /\ (Tuples /\ Len(closure.p.at) > Len(closure.q.at))
              => (got.raised = "IndexError")
        /\ (Tuples /\ Len(closure.p.at) < Len(closure.q.at))
              => /\ got.raised = None
                 /\ got.value.iter
                 /\ Len(got.value.at) = Len(closure.p.at)
                 /\ \A i \in 1..Len(closure.p.at) :
                        got.value.at[i] =
                            interpolate(closure.p.at[i], closure.q.at[i],
                                        got.t, closure.f)

\* interpolate was called with a tuple p and a longer tuple q, and returned
C23_Witness ==
    /\ got.op = "interpolate"
    /\ Tuples
    /\ 0 < Len(closure.p.at)
    /\ Len(closure.p.at) < Len(closure.q.at)
    /\ got.raised = None

\* C24: for t_max > t_min, a call of the interpolator at t <= t_min does
\* what the call at t_min does, and at t >= t_max what the call at t_max
\* does; when it returns, these are exactly p and, component by component
\* of p, q: the number q for numbers and the tuple q for tuples of one
\* length.
C24_ClampsToEnds ==
    (got.op = "call" /\ closure.t_max > closure.t_min) =>
        /\ (got.t <= closure.t_min)
              => (got = Did("call", got.t, Call(closure, closure.t_min)))
        /\ (got.t >= closure.t_max)
              => (got = Did("call", got.t, Call(closure, closure.t_max)))
        /\ (got.raised = None /\ got.t <= closure.t_min)
              => (got.value = closure.p)
        /\ (got.raised = None /\ got.t >= closure.t_max)
              => /\ got.value.iter = closure.p.iter
                 /\ got.value.at = SubSeq(closure.q.at, 1, Len(closure.p.at))
                 /\ (Len(closure.p.at) = Len(closure.q.at))
                        => (got.value = closure.q)

\* an interpolator between two different tuples of the longest length was
\* called beyond t_max and returned q
C24_Witness ==
    /\ got.op = "call"
    /\ closure.t_max > closure.t_min
    /\ got.t > closure.t_max
    /\ closure.f = polynomial
    /\ Tuples
    /\ Len(closure.p.at) = MaxLen
    /\ Len(closure.q.at) = MaxLen
    /\ closure.p.at[1] # closure.q.at[1]
    /\ got.raised = None
    /\ got.value = closure.q

----------------------------------------------------------------------------
(* Properties of SpecEntity: the state a completion callback sees            *)

\* C31: when update invokes the completion callback, the animation it is
\* given is already stopped and already on its snapped frame (the last one
\* for PAUSE, the first for RESET); what update leaves is what the callback
\* leaves of that state; so a transition that targets the completing
\* animation leaves it current, playing, with elapsed 0 and on its first
\* frame when update returns.
C31_CallbackStep ==
    (told'.op = "update" /\ told'.passed # <<>>) =>
        LET given == told'.passed[1]
            x == told'.ran[1]
            completing == entity.current
            sw == switcher_(entity, [clips EXCEPT ![completing] = given],
                            x.target, completing)
        IN  /\ x.arg = completing
            /\ given.style \in {RESET, PAUSE}
            /\ ~given.playing
            /\ given.frame = (IF given.style = PAUSE THEN given.end ELSE given.start)
            /\ given.t > given.t_full
            /\ entity' = sw.entity
            /\ clips' = sw.clips
            /\ (x.target = completing) =>
                  /\ entity'.current = completing
                  /\ clips'[completing].playing
                  /\ clips'[completing].t = 0
                  /\ clips'[completing].frame = clips'[completing].start

C31_CallbackSeesCompleted == [][C31_CallbackStep]_vars

\* an animation that stops on its last frame played to its end and its
\* callback, a transition to that same animation, ran: it was given the
\* animation stopped on its last frame and has left it playing from the start
C31_Witness ==
    /\ told.op = "update"
    /\ told.passed # <<>>
    /\ told.ran[1].target = told.ran[1].arg
    /\ told.passed[1].style = PAUSE
    /\ ~told.passed[1].playing
    /\ told.passed[1].frame = told.passed[1].end
    /\ told.passed[1].frame # told.passed[1].start
    /\ entity.current = told.ran[1].arg
    /\ clips[entity.current].playing
    /\ clips[entity.current].t = 0
    /\ clips[entity.current].frame = clips[entity.current].start

----------------------------------------------------------------------------
(* Properties of SpecVariLive: termination                                   *)

\* the Vari has no animation left and the step is not an add_anim
QuietStep == (vari.anims = {} /\ tick'.op # "add") => (vari'.anims = {})

\* C32: when the Vari keeps being updated with a positive dt, of any size,
\* every animation of its set, STRAIGHT or REVERSE, eventually has finished
\* and has been removed from the set, so that the set is empty again and
\* again, and once empty it stays empty until add_anim is called.
C32_EventuallyEmpty ==
    /\ \A id \in SteadyIds :
          (id \in vari.anims) ~> (id \notin vari.anims /\ ~objs[id].playing)
    /\ []<>(vari.anims = {})
    /\ [][QuietStep]_vars

\* both animations have played to their end and were removed: the set is
\* empty after having held them
C32_Witness ==
    /\ vari.anims = {}
    /\ tick.op = "update"
    /\ tick.spent # {}
    /\ \A id \in SteadyIds : ~objs[id].playing

----------------------------------------------------------------------------
(* Properties of SpecApp: focus and the input buffer                         *)

\* at most one element is focused, App.focused is that element, and it is
\* the App exactly when no element is focused
OneFocus ==
    /\ app.focused \in Elements \cup {App}
    /\ Cardinality({ e \in Elements : elems[e].focused }) <= 1
    /\ \A e \in Elements : elems[e].focused => (app.focused = e)
    /\ (app.focused = App) <=> (\A e \in Elements : ~elems[e].focused)

\* an event changes nothing of an element that did not have the focus
OnlyToFocused ==
    (heard'.op = "event") =>
        /\ heard'.to = app.focused
        /\ \A e \in Elements \ {app.focused} : elems'[e] = elems[e]
        /\ (app.focused \notin Buffers) => (elems' = elems /\ app' = app)

C34_Step ==
    LET f == app.focused IN
    /\ ~heard'.other =>
          \A b \in Buffers :
              0 <= elems'[b].index /\ elems'[b].index <= Len(elems'[b].buffer)
    /\ (heard'.op = "event" /\ f \in Buffers /\ heard'.arg.type = KEYDOWN) =>
          /\ (heard'.arg.key = "backspace" /\ elems[f].index = 0)
                => (elems' = elems /\ app' = app)
          /\ (heard'.arg.key \in Typed /\ ~heard.other)
                => /\ elems'[f].buffer =
                          SubSeq(elems[f].buffer, 1, elems[f].index)
                              \o <<heard'.arg.key>>
                              \o SubSeq(elems[f].buffer, elems[f].index + 1,
                                        Len(elems[f].buffer))
                   /\ elems'[f].index = elems[f].index + 1
                   /\ elems'[f].focused
          /\ (heard'.arg.key = "return")
                => /\ heard'.sent = <<elems[f].buffer>>
                   /\ ~elems'[f].focused
          /\ (heard'.arg.key = "escape") => ~elems'[f].focused
    /\ \A b \in Buffers :
          (elems[b].focused /\ (~elems'[b].focused \/ heard'.op = "focus"))
              => (elems'[b].buffer = <<>> /\ elems'[b].index = 0)
    /\ (heard'.sent # <<>>)
          => (heard'.op = "event" /\ f \in Buffers /\ heard'.arg.key = "return")

C34_BufferIndex == [][C34_Step]_vars

\* Return sent a text of the longest length, typed or set with the keys
\* listed only, and left the buffer empty
C34_Witness ==
    /\ heard.op = "event"
    /\ heard.arg.key = "return"
    /\ ~heard.other
    /\ heard.sent # <<>>
    /\ Len(heard.sent[1]) = MaxBuffer
    /\ heard.sent[1][1] # heard.sent[1][2]
    /\ elems["line"].buffer = <<>>
    /\ elems["line"].index = 0
    /\ app.focused = App

====
